---- MODULE Spec2Model ----
(***************************************************************************)
(* Profile identity and multi-tier persistence of the Astrologer MCP       *)
(* server (src/mcp-bearer-token/puch_astro_mcp.py).                        *)
(*                                                                         *)
(* Strings are sequences of one-character strings, so that lower() and     *)
(* strip() are computed character by character.  An absent optional        *)
(* argument (None) and the empty string are both the empty sequence: the   *)
(* code only ever tests these arguments for truthiness.  An Optional[Dict] *)
(* is a set holding at most one record: {} is None, {r} is the dict r.     *)
(***************************************************************************)
EXTENDS Integers, Sequences, FiniteSets, TLC

\* ------------------------------------------------------------------ bounds
\* Number of tool invocations the clients make in one process lifetime.
MaxCalls == 2
\* Number of tool invocations that can be in flight on the event loop at once.
MaxInFlight == 2

Slots == 1..MaxInFlight

\* ------------------------------------------------------------------ strings
Absent == <<>>

Truthy(s) == s # <<>>

\* str.lower() on the characters the inputs use.
LowerChar(c) ==
    CASE c = "J" -> "j"
      [] c = "A" -> "a"
      [] c = "M" -> "m"
      [] OTHER -> c

lower(s) == [i \in DOMAIN s |-> LowerChar(s[i])]

IsSpace(c) == c = " "

RECURSIVE lstrip(_)
lstrip(s) == IF s # <<>> /\ IsSpace(Head(s)) THEN lstrip(Tail(s)) ELSE s

RECURSIVE rstrip(_)
rstrip(s) ==
    IF s # <<>> /\ IsSpace(s[Len(s)]) THEN rstrip(SubSeq(s, 1, Len(s) - 1)) ELSE s

\* str.strip()
strip(s) == rstrip(lstrip(s))

\* ------------------------------------------------------------------ identity
\* f"{name.lower().strip()}_{dob}_{time}_{place.lower().strip()}"
raw_key(name, dob, time, place) ==
    strip(lower(name)) \o <<"_">> \o dob \o <<"_">> \o time \o <<"_">>
        \o strip(lower(place))

\* hashlib.md5(raw.encode()).hexdigest()[:12].  The digest is a deterministic
\* function of the bytes hashed and of nothing else; it is kept symbolic
\* (the tag "md5" in front of the hashed text), which makes it collision-free
\* on the inputs of the model.
md5_hexdigest_12(raw) == <<"md5">> \o raw

generate_profile_id_no_normalise(name, dob, time, place) ==
    md5_hexdigest_12(name \o <<"_">> \o dob \o <<"_">> \o time \o <<"_">> \o place)

generate_profile_id(name, dob, time, place) ==
    md5_hexdigest_12(raw_key(name, dob, time, place))

\* ------------------------------------------------------------------ inputs
Facts(n, d, t, p) == [name |-> n, dob |-> d, time |-> t, place |-> p]

Jo == Facts(<<"J", "o">>, <<"9", "0">>, <<"1", "4">>, <<"M">>)
\* the same person, spelled with other case and surrounding blanks
JoSpaced == Facts(<<" ", "j", "o", " ">>, <<"9", "0">>, <<"1", "4">>, <<"m", " ">>)
Al == Facts(<<"A", "l">>, <<"9", "0">>, <<"1", "4">>, <<"M">>)
NoFacts == Facts(Absent, Absent, Absent, Absent)

\* astro_register_profile takes four required strings
RegisterFacts == {Jo, JoSpaced, Al}

\* astro_ask takes four optional strings: none, all, or all but one
AskFacts ==
    {NoFacts, Jo, [Jo EXCEPT !.name = Absent], [Jo EXCEPT !.place = Absent]}

SessionIds == {Absent, <<"s", "1">>}

\* the MCP session an astro_ask call arrives in
AskSessions == {<<"s", "1">>}

IdOf(f) == generate_profile_id(f.name, f.dob, f.time, f.place)

\* profile_id arguments a caller can pass to astro_ask
AskProfileIds == {Absent, IdOf(Jo), IdOf(Al)}

Question == <<"q">>

\* ------------------------------------------------------------------ dicts
\* A Python dict is the set of its (key, value) items.
DictGet(d, k) == {e[2] : e \in {x \in d : x[1] = k}}

\* a mapping that keeps every value written under a key
DictSet_append(d, k, v) == d \cup {<<k, v>>}

\* a mapping whose first value under a key stays
DictSet_keep_first(d, k, v) ==
    IF DictGet(d, k) # {} THEN d ELSE d \cup {<<k, v>>}

\* a mapping that holds only the value written last
DictSet_replace_all(d, k, v) == {<<k, v>>}

\* d[k] = v
DictSet(d, k, v) == {e \in d : e[1] # k} \cup {<<k, v>>}

DictKeys(d) == {e[1] : e \in d}

\* ------------------------------------------------------------------ state
VARIABLES
    N8N_WEBHOOK_URL,     \* TRUE when the webhook endpoint is configured
    OPENAI_API_KEY,      \* TRUE when the AI backend credential is configured
    openai_client,       \* TRUE once the lazily created client exists
    fallback_profiles,   \* _fallback_profiles, the process-local dict
    remote_profiles,     \* the Remote Store's profiles, keyed by profile_id
    remote_sessions,     \* the Remote Store's session bindings
    calls,               \* invocations started so far; also the wall clock
    inv,                 \* per slot: the invocation suspended at an await
    last,                \* the locals of the invocation that returned last
    issued               \* the registrations acknowledged so far, in order

vars == <<N8N_WEBHOOK_URL, OPENAI_API_KEY, openai_client, fallback_profiles,
          remote_profiles, remote_sessions, calls, inv, last, issued>>

config == <<N8N_WEBHOOK_URL, OPENAI_API_KEY>>

\* storage_info, the tier label of the response
NoStorage == [tier |-> "none", error |-> "none"]
\* "Stored in Qdrant (persistent memory)"
Durable == [tier |-> "durable", error |-> "none"]
\* "In-memory storage (will reset on restart)"
Ephemeral == [tier |-> "ephemeral", error |-> "none"]
\* f"Fallback storage used: {str(e)[:50]}..."
FallbackUsed(e) == [tier |-> "fallback_used", error |-> e]

\* The locals of one invocation. n_store, n_get and n_session count the
\* webhook requests of its completed Remote Store calls and n_fallback its
\* writes to _fallback_profiles.
Idle ==
    [pc |-> "idle", tool |-> "none", facts |-> NoFacts, session_id |-> Absent,
     caller_session |-> Absent, arg_profile_id |-> Absent,
     profile_id |-> Absent, profile_data |-> {}, storage_info |-> NoStorage,
     store_outcome |-> "none", session_outcome |-> "none",
     get_outcome |-> "none", resolved |-> {},
     n_store |-> 0, n_get |-> 0, n_session |-> 0, n_fallback |-> 0,
     status |-> "none", kind |-> "none", insights |-> "none",
     insight_args |-> {}]

\* datetime.now(): the clock advances with every invocation that arrives.
now == calls

\* ------------------------------------------------------------------ Remote Store Client
\* Outcomes of one _call_n8n request: a JSON body, or one of the three
\* McpError causes raised at lines 264-282.
StorageErrors == {"unreachable", "status", "not_json"}

CallOutcomes == {"ok"} \cup StorageErrors

\* QdrantStorage.store_profile without N8N_WEBHOOK_URL raises before any request.
NotConfigured == "not_configured"

\* a client that posts again after a failed request
call_n8n_requests_retry(out) == IF out = "ok" THEN 1 ELSE 2

\* _call_n8n posts once (line 263), whatever the outcome.
call_n8n_requests(out) == 1

\* The request counters of an operation that made n requests.
Requests(loc, op, n) ==
    [loc EXCEPT !.n_store = IF op = "store_profile" THEN @ + n ELSE @,
                !.n_get = IF op = "get_profile" THEN @ + n ELSE @,
                !.n_session = IF op = "set_active_session" THEN @ + n ELSE @]

\* What the webhook does with an accepted store_profile: persist or overwrite
\* the Profile under its profile_id.
RemoteStore(rp, profile) == DictSet(rp, profile.profile_id, profile)

\* What the webhook does with an accepted set_active_session.
RemoteBind(rs, sid, pid) == DictSet(rs, sid, pid)

\* The JSON bodies the webhook answers an accepted get_profile with: the stored
\* profile under the key "profile" when there is one, otherwise a body without
\* that key or a body whose "profile" is null.
RemoteGetBodies(rp, pid) ==
    IF DictGet(rp, pid) # {}
    THEN {[has_key |-> TRUE, profile |-> DictGet(rp, pid)]}
    ELSE {[has_key |-> FALSE, profile |-> {}], [has_key |-> TRUE, profile |-> {}]}

NoBody == [has_key |-> FALSE, profile |-> {}]

\* An arriving invocation takes the first free slot: slots carry no identity.
FreeSlot(s) ==
    /\ inv[s].pc = "idle"
    /\ \A r \in Slots : r < s => inv[r].pc # "idle"

\* ------------------------------------------------------------------ Insight Generator
\* What the AI backend does with one chat completion request.
InsightOutcomes == {"text", "empty", "raises"}

\* _ensure_openai_client: the client is created on first use when the key is
\* set; `constructed` is whether OpenAI(api_key=...) succeeded.
ensure_openai_client(client, key, constructed) ==
    client \/ (key /\ constructed)

\* the Insight Generator without its `except Exception` (line 169)
get_astrology_insights_uncaught(client, io) ==
    IF ~client THEN "unavailable"
    ELSE IF io = "raises" THEN "raised"
    ELSE IF io = "empty" THEN "sorry_no_insights"
    ELSE "insights"

\* get_astrology_insights never raises: every failure becomes a fixed text.
get_astrology_insights(client, io) ==
    IF ~client THEN "unavailable"
    ELSE IF io = "raises" THEN "sorry_technical_issue"
    ELSE IF io = "empty" THEN "sorry_no_insights"
    ELSE "insights"

InsightArgs(f, question) ==
    [name |-> f.name, dob |-> f.dob, time |-> f.time, place |-> f.place,
     question |-> question]

\* ------------------------------------------------------------------ Profile Resolver
\* the resolver reading the Fallback Store before the Remote Store
get_profile_by_id_fallback_first(url, out, body, fb, pid) ==
    IF DictGet(fb, pid) # {} THEN DictGet(fb, pid)
    ELSE IF url /\ out = "ok" /\ body.has_key THEN body.profile
    ELSE {}

\* the resolver returning the younger of the two records
get_profile_by_id_newest(url, out, body, fb, pid) ==
    IF url /\ out = "ok" /\ body.has_key
    THEN IF \E r \in body.profile, f \in DictGet(fb, pid) : f.created_at > r.created_at
         THEN DictGet(fb, pid)
         ELSE body.profile
    ELSE DictGet(fb, pid)

\* the resolver without the fallback lookup after a Remote Store answer
get_profile_by_id_remote_only(url, out, body, fb, pid) ==
    IF url THEN (IF out = "ok" /\ body.has_key THEN body.profile ELSE {})
    ELSE DictGet(fb, pid)

\* _get_profile_by_id, given the outcome of its get_profile request (if any).
get_profile_by_id(url, out, body, fb, pid) ==
    IF url /\ out = "ok" /\ body.has_key
    THEN body.profile
    ELSE DictGet(fb, pid)

\* ------------------------------------------------------------------ register
register_profile_data_normalised(pid, f, sid, t) ==
    [profile_id |-> pid, name |-> strip(lower(f.name)), dob |-> f.dob,
     time |-> f.time, place |-> strip(lower(f.place)), created_at |-> t,
     session_id |-> sid]

register_profile_data(pid, f, sid, t) ==
    [profile_id |-> pid, name |-> f.name, dob |-> f.dob, time |-> f.time,
     place |-> f.place, created_at |-> t, session_id |-> sid]

register_store_error_caught_transport_only(e) == e = "unreachable"

\* `except Exception as e` (line 354): every error of store_profile is caught.
register_store_error_caught(e) == TRUE

\* a register that binds the session whether or not one was given
binds_session_always(sid) == TRUE

\* `if session_id:` (line 349), reached only after store_profile returned
binds_session(sid) == Truthy(sid)

\* a set_active_session error that leaves the inner try
session_error_escapes(e) == FALSE

\* `except Exception: pass` (lines 352-353) around set_active_session.
session_error_swallowed(e) == TRUE

\* The outer `except Exception` of a tool: McpError to the caller.
ToolError(loc) ==
    [loc EXCEPT !.pc = "returned", !.status = "tool_error", !.kind = "error"]

\* The response, and the end of the invocation; an exception out of the
\* Insight Generator would reach the tool's outer handler.
Returned(loc, kind, args, text) ==
    IF text = "raised"
    THEN [ToolError(loc) EXCEPT !.insight_args = args, !.insights = text]
    ELSE [loc EXCEPT !.pc = "returned", !.status = "ok", !.kind = kind,
                     !.insight_args = args, !.insights = text]

Receipt(r) ==
    [tool |-> r.tool, facts |-> r.facts, profile_id |-> r.profile_id,
     session_id |-> r.session_id, tier |-> r.storage_info.tier,
     profile_data |-> r.profile_data]

\* lines 363-376: the reading, the summary and the return
RegisterReturn(s, loc) ==
    \E constructed \in BOOLEAN, io \in InsightOutcomes :
        LET client == ensure_openai_client(openai_client, OPENAI_API_KEY, constructed)
            r == Returned(loc, "registered", {InsightArgs(loc.facts, Absent)},
                          get_astrology_insights(client, io))
        IN  /\ openai_client' = client
            /\ inv' = [inv EXCEPT ![s] = Idle]
            /\ last' = r
            /\ issued' = Append(issued, Receipt(r))

RegisterRaise(s, loc) ==
    /\ inv' = [inv EXCEPT ![s] = Idle]
    /\ last' = ToolError(loc)
    /\ UNCHANGED <<openai_client, issued>>

\* lines 328-346 (endpoint configured: up to the await of store_profile) or
\* lines 328-376 (not configured: the whole tool)
RegisterCall(s, f, sid) ==
    /\ FreeSlot(s)
    /\ calls < MaxCalls
    /\ calls' = calls + 1
    /\ LET pid == generate_profile_id(f.name, f.dob, f.time, f.place)
           data == register_profile_data(pid, f, sid, calls + 1)
           loc == [Idle EXCEPT !.tool = "register", !.facts = f,
                               !.session_id = sid, !.caller_session = sid,
                               !.profile_id = pid, !.profile_data = {data}]
       IN  IF N8N_WEBHOOK_URL
           THEN /\ inv' = [inv EXCEPT ![s] =
                              [loc EXCEPT !.pc = "store_wait"]]
                /\ UNCHANGED <<openai_client, fallback_profiles, last, issued>>
           ELSE /\ fallback_profiles' = DictSet(fallback_profiles, pid, data)
                /\ RegisterReturn(s, [loc EXCEPT !.storage_info = Ephemeral,
                                                 !.n_fallback = 1])
    /\ UNCHANGED <<config, remote_profiles, remote_sessions>>

\* lines 346-361, resumed when store_profile returns or raises
RegisterStoreReturn(s, out) ==
    /\ inv[s].pc = "store_wait"
    /\ inv[s].tool = "register"
    /\ LET loc == Requests([inv[s] EXCEPT !.store_outcome = out],
                            "store_profile", call_n8n_requests(out))
           data == CHOOSE d \in loc.profile_data : TRUE
       IN  IF out = "ok"
           THEN /\ remote_profiles' = RemoteStore(remote_profiles, data)
                /\ fallback_profiles' = fallback_profiles
                /\ IF binds_session(loc.session_id)
                   THEN /\ inv' = [inv EXCEPT ![s] =
                                      [loc EXCEPT !.pc = "session_wait",
                                                  !.storage_info = Durable]]
                        /\ UNCHANGED <<openai_client, last, issued>>
                   ELSE RegisterReturn(s, [loc EXCEPT !.storage_info = Durable])
           ELSE /\ remote_profiles' = remote_profiles
                /\ IF register_store_error_caught(out)
                   THEN /\ fallback_profiles' =
                               DictSet(fallback_profiles, loc.profile_id, data)
                        /\ RegisterReturn(s,
                               [loc EXCEPT !.storage_info = FallbackUsed(out),
                                           !.n_fallback = 1])
                   ELSE /\ fallback_profiles' = fallback_profiles
                        /\ RegisterRaise(s, loc)
    /\ UNCHANGED <<config, remote_sessions, calls>>

\* lines 349-353, resumed when set_active_session returns or raises; an error
\* that escaped the inner try would reach the handler of line 354
RegisterSessionReturn(s, out) ==
    /\ inv[s].pc = "session_wait"
    /\ LET loc == Requests([inv[s] EXCEPT !.session_outcome = out],
                            "set_active_session", call_n8n_requests(out))
           data == CHOOSE d \in loc.profile_data : TRUE
       IN  IF out = "ok"
           THEN /\ remote_sessions' =
                       RemoteBind(remote_sessions, loc.session_id, loc.profile_id)
                /\ fallback_profiles' = fallback_profiles
                /\ RegisterReturn(s, loc)
           ELSE /\ remote_sessions' = remote_sessions
                /\ IF session_error_swallowed(out)
                   THEN /\ fallback_profiles' = fallback_profiles
                        /\ RegisterReturn(s, loc)
                   ELSE /\ fallback_profiles' =
                               DictSet(fallback_profiles, loc.profile_id, data)
                        /\ RegisterReturn(s,
                               [loc EXCEPT !.storage_info = FallbackUsed(out),
                                           !.n_fallback = 1])
    /\ UNCHANGED <<config, remote_profiles, calls>>

\* ------------------------------------------------------------------ ask
\* an auto-created profile that does not carry its id
ask_profile_data_no_id(pid, f, t) ==
    [profile_id |-> Absent, name |-> f.name, dob |-> f.dob, time |-> f.time,
     place |-> f.place, created_at |-> t, session_id |-> Absent]

\* line 435: the auto-created profile carries no session_id
ask_profile_data(pid, f, t) ==
    [profile_id |-> pid, name |-> f.name, dob |-> f.dob, time |-> f.time,
     place |-> f.place, created_at |-> t, session_id |-> Absent]

has_birth_details_but_place(f) ==
    Truthy(f.name) /\ Truthy(f.dob) /\ Truthy(f.time)

\* `if name and dob and time and place:` (line 426)
has_birth_details(f) ==
    Truthy(f.name) /\ Truthy(f.dob) /\ Truthy(f.time) /\ Truthy(f.place)

\* `if profile:` (line 418), reached only under `if profile_id:` (line 416)
profile_found(pid, profile) == Truthy(pid) /\ profile # {}

\* lines 416-426 with the two tests in the other order: birth details first
birth_details_first(loc) ==
    profile_found(loc.arg_profile_id, loc.resolved) /\ ~has_birth_details(loc.facts)

\* the branch of lines 419-423 is taken
answers_from_profile(loc) == profile_found(loc.arg_profile_id, loc.resolved)

\* `except Exception as e` (line 443): every error of store_profile is caught.
ask_store_error_caught(e) == TRUE

\* lines 448-454: the reading, the note and the return
AskAutoReturn(s, loc) ==
    \E constructed \in BOOLEAN, io \in InsightOutcomes :
        LET client == ensure_openai_client(openai_client, OPENAI_API_KEY, constructed)
            r == Returned(loc, "auto_registered", {InsightArgs(loc.facts, Question)},
                          get_astrology_insights(client, io))
        IN  /\ openai_client' = client
            /\ inv' = [inv EXCEPT ![s] = Idle]
            /\ last' = r
            /\ issued' = Append(issued, Receipt(r))

\* lines 418-468, with the resolved profile (if any) in loc.resolved
AskAfterResolve(s, loc) ==
    IF answers_from_profile(loc)
    THEN \* lines 419-423
         /\ \E constructed \in BOOLEAN, io \in InsightOutcomes :
              LET client == ensure_openai_client(openai_client, OPENAI_API_KEY,
                                                 constructed)
                  profile == CHOOSE d \in loc.resolved : TRUE
              IN  /\ openai_client' = client
                  /\ last' = Returned(loc, "answered",
                                      {InsightArgs(profile, Question)},
                                      get_astrology_insights(client, io))
         /\ inv' = [inv EXCEPT ![s] = Idle]
         /\ UNCHANGED <<fallback_profiles, issued>>
    ELSE IF has_birth_details(loc.facts)
    THEN \* lines 428-454
         LET f == loc.facts
             pid == generate_profile_id(f.name, f.dob, f.time, f.place)
             data == ask_profile_data(pid, f, now')
             reg == [loc EXCEPT !.profile_id = pid, !.profile_data = {data},
                                !.store_outcome =
                                    IF N8N_WEBHOOK_URL THEN "none" ELSE NotConfigured]
         IN  IF N8N_WEBHOOK_URL
             THEN /\ inv' = [inv EXCEPT ![s] =
                                [reg EXCEPT !.pc = "store_wait"]]
                  /\ UNCHANGED <<openai_client, fallback_profiles, last, issued>>
             ELSE IF ask_store_error_caught(NotConfigured)
             THEN /\ fallback_profiles' = DictSet(fallback_profiles, pid, data)
                  /\ AskAutoReturn(s,
                         [reg EXCEPT !.storage_info = FallbackUsed(NotConfigured),
                                     !.n_fallback = 1])
             ELSE /\ inv' = [inv EXCEPT ![s] = Idle]
                  /\ last' = ToolError(reg)
                  /\ UNCHANGED <<openai_client, fallback_profiles, issued>>
    ELSE \* lines 456-468: the guidance message
         /\ inv' = [inv EXCEPT ![s] = Idle]
         /\ last' = Returned(loc, "guidance", {}, "none")
         /\ UNCHANGED <<openai_client, fallback_profiles, issued>>

\* lines 414-417 (up to the await of get_profile) or the whole tool when
\* nothing is awaited. `sess` is the MCP session the call arrives in; the tool
\* has no parameter for it.
AskCall(s, f, pid, sess) ==
    /\ FreeSlot(s)
    /\ calls < MaxCalls
    /\ calls' = calls + 1
    /\ LET loc == [Idle EXCEPT !.tool = "ask", !.facts = f,
                               !.arg_profile_id = pid, !.caller_session = sess]
       IN  IF Truthy(pid) /\ N8N_WEBHOOK_URL
           THEN /\ inv' = [inv EXCEPT ![s] =
                              [loc EXCEPT !.pc = "get_wait"]]
                /\ UNCHANGED <<openai_client, fallback_profiles, last, issued>>
           ELSE AskAfterResolve(s,
                    [loc EXCEPT !.resolved =
                        IF Truthy(pid)
                        THEN get_profile_by_id(N8N_WEBHOOK_URL, "none", NoBody,
                                               fallback_profiles, pid)
                        ELSE {}])
    /\ UNCHANGED <<config, remote_profiles, remote_sessions>>

\* lines 417-468, resumed when get_profile returns or raises
AskGetReturn(s, out, body) ==
    /\ inv[s].pc = "get_wait"
    /\ body \in (IF out = "ok"
                 THEN RemoteGetBodies(remote_profiles, inv[s].arg_profile_id)
                 ELSE {NoBody})
    /\ UNCHANGED <<config, remote_profiles, remote_sessions, calls>>
    /\ AskAfterResolve(s,
           [Requests(inv[s], "get_profile", call_n8n_requests(out)) EXCEPT
               !.get_outcome = IF out # "ok" THEN out
                               ELSE IF ~body.has_key THEN "no_profile_key"
                               ELSE IF body.profile = {} THEN "null_profile"
                               ELSE "profile",
               !.resolved = get_profile_by_id(N8N_WEBHOOK_URL, out, body,
                                fallback_profiles, inv[s].arg_profile_id)])

\* lines 441-454, resumed when store_profile returns or raises
AskStoreReturn(s, out) ==
    /\ inv[s].pc = "store_wait"
    /\ inv[s].tool = "ask"
    /\ LET loc == Requests([inv[s] EXCEPT !.store_outcome = out],
                            "store_profile", call_n8n_requests(out))
           data == CHOOSE d \in loc.profile_data : TRUE
       IN  IF out = "ok"
           THEN /\ remote_profiles' = RemoteStore(remote_profiles, data)
                /\ fallback_profiles' = fallback_profiles
                /\ AskAutoReturn(s, [loc EXCEPT !.storage_info = Durable])
           ELSE /\ remote_profiles' = remote_profiles
                /\ IF ask_store_error_caught(out)
                   THEN /\ fallback_profiles' =
                               DictSet(fallback_profiles, loc.profile_id, data)
                        /\ AskAutoReturn(s,
                               [loc EXCEPT !.storage_info = FallbackUsed(out),
                                           !.n_fallback = 1])
                   ELSE /\ inv' = [inv EXCEPT ![s] = Idle]
                        /\ last' = ToolError(loc)
                        /\ UNCHANGED <<openai_client, fallback_profiles, issued>>
    /\ UNCHANGED <<config, remote_sessions, calls>>

\* ------------------------------------------------------------------ specification
Init ==
    /\ N8N_WEBHOOK_URL \in BOOLEAN
    /\ OPENAI_API_KEY \in BOOLEAN
    /\ openai_client = FALSE
    /\ fallback_profiles = {}
    /\ remote_profiles = {}
    /\ remote_sessions = {}
    /\ calls = 0
    /\ inv = [s \in Slots |-> Idle]
    /\ last = Idle
    /\ issued = <<>>

Next ==
    \/ \E s \in Slots, f \in RegisterFacts, sid \in SessionIds : RegisterCall(s, f, sid)
    \/ \E s \in Slots, out \in CallOutcomes : RegisterStoreReturn(s, out)
    \/ \E s \in Slots, out \in CallOutcomes : RegisterSessionReturn(s, out)
    \/ \E s \in Slots, f \in AskFacts, pid \in AskProfileIds, sess \in AskSessions :
           AskCall(s, f, pid, sess)
    \/ \E s \in Slots, out \in CallOutcomes :
           \E body \in (IF out = "ok"
                        THEN RemoteGetBodies(remote_profiles, inv[s].arg_profile_id)
                        ELSE {NoBody}) :
               AskGetReturn(s, out, body)
    \/ \E s \in Slots, out \in CallOutcomes : AskStoreReturn(s, out)

Spec == Init /\ [][Next]_vars

\* ------------------------------------------------------------------ Remote Store Client
\* The three operations of QdrantStorage, called on their own.
ClientOps == {"store_profile", "get_profile", "set_active_session"}

\* What an operation does when N8N_WEBHOOK_URL is not set: store_profile and
\* get_profile raise McpError, set_active_session returns
\* {"status": "session_set", "profile_id": profile_id}.
without_endpoint(op) ==
    IF op = "set_active_session" THEN "session_set" ELSE "storage_error"

\* _call_n8n: McpError for a transport error, a status >= 400 or a body that
\* is not JSON, the parsed body otherwise.
call_n8n_result(out) == IF out = "ok" THEN "json" ELSE "storage_error"

ClientArgs(op, f, sid, t) ==
    LET pid == IdOf(f)
    IN  [Idle EXCEPT !.tool = op, !.session_id = sid,
                     !.profile_id = IF op = "store_profile" THEN Absent ELSE pid,
                     !.profile_data = IF op = "store_profile"
                                      THEN {register_profile_data(pid, f, sid, t)}
                                      ELSE {}]

\* lines 216-248: the operation up to its await of _call_n8n, or all of it
\* when no endpoint is set
ClientCall(s, op, f, sid) ==
    /\ FreeSlot(s)
    /\ calls < MaxCalls
    /\ calls' = calls + 1
    /\ LET loc == ClientArgs(op, f, sid, calls + 1)
       IN  IF N8N_WEBHOOK_URL
           THEN /\ inv' = [inv EXCEPT ![s] = [loc EXCEPT !.pc = "n8n_wait"]]
                /\ last' = last
           ELSE /\ inv' = inv
                /\ last' = [loc EXCEPT !.pc = "returned",
                                       !.kind = without_endpoint(op),
                                       !.status = IF without_endpoint(op) = "storage_error"
                                                  THEN "storage_error" ELSE "ok"]
    /\ UNCHANGED <<config, openai_client, fallback_profiles, remote_profiles,
                   remote_sessions, issued>>

store_profile(s, f, sid) == ClientCall(s, "store_profile", f, sid)

get_profile(s, f, sid) == ClientCall(s, "get_profile", f, sid)

set_active_session(s, f, sid) == ClientCall(s, "set_active_session", f, sid)

\* lines 251-282: the webhook answered, or the request failed
call_n8n(s, out) ==
    /\ inv[s].pc = "n8n_wait"
    /\ LET loc == inv[s]
           op == loc.tool
           done == Requests([loc EXCEPT !.pc = "returned",
                                        !.kind = call_n8n_result(out),
                                        !.status = IF out = "ok" THEN "ok"
                                                   ELSE "storage_error"],
                            op, call_n8n_requests(out))
       IN  /\ remote_profiles' =
                 IF out = "ok" /\ op = "store_profile"
                 THEN RemoteStore(remote_profiles, CHOOSE d \in loc.profile_data : TRUE)
                 ELSE remote_profiles
           /\ remote_sessions' =
                 IF out = "ok" /\ op = "set_active_session" /\ Truthy(loc.session_id)
                 THEN RemoteBind(remote_sessions, loc.session_id, loc.profile_id)
                 ELSE remote_sessions
           /\ \E body \in (IF out = "ok" /\ op = "get_profile"
                           THEN RemoteGetBodies(remote_profiles, loc.profile_id)
                           ELSE {NoBody}) :
                 last' = [done EXCEPT !.resolved = body.profile,
                              !.get_outcome =
                                  IF op # "get_profile" THEN "none"
                                  ELSE IF out # "ok" THEN out
                                  ELSE IF ~body.has_key THEN "no_profile_key"
                                  ELSE IF body.profile = {} THEN "null_profile"
                                  ELSE "profile"]
           /\ inv' = [inv EXCEPT ![s] = Idle]
    /\ UNCHANGED <<config, openai_client, fallback_profiles, calls, issued>>

ClientNext ==
    \/ \E s \in Slots, f \in RegisterFacts, sid \in SessionIds : store_profile(s, f, sid)
    \/ \E s \in Slots, f \in RegisterFacts, sid \in SessionIds : get_profile(s, f, sid)
    \/ \E s \in Slots, f \in RegisterFacts, sid \in SessionIds :
           set_active_session(s, f, sid)
    \/ \E s \in Slots, out \in CallOutcomes : call_n8n(s, out)

\* The Remote Store Client driven directly, one operation per call.
ClientSpec == Init /\ [][ClientNext]_vars

\* ------------------------------------------------------------------ progress
\* only store_profile calls are sure to complete
Resume_store_only(s) ==
    \E out \in CallOutcomes :
        RegisterStoreReturn(s, out) \/ AskStoreReturn(s, out)

\* The awaited Remote Store call of slot s completes: every request is made
\* under httpx.AsyncClient(timeout=30) (line 261), so it answers, fails or
\* times out, and the event loop then resumes the invocation.
Resume(s) ==
    \E out \in CallOutcomes :
        \/ RegisterStoreReturn(s, out)
        \/ RegisterSessionReturn(s, out)
        \/ AskStoreReturn(s, out)
        \/ \E body \in (IF out = "ok"
                        THEN RemoteGetBodies(remote_profiles, inv[s].arg_profile_id)
                        ELSE {NoBody}) :
               AskGetReturn(s, out, body)

\* Progress does not depend on the Insight Generator, whose call is part of the
\* step that returns: the process is taken without OPENAI_API_KEY, where
\* get_astrology_insights answers at once (lines 132-133).
InitNoKey == Init /\ ~OPENAI_API_KEY

FairSpec == InitNoKey /\ [][Next]_vars /\ \A s \in Slots : WF_vars(Resume(s))

\* ------------------------------------------------------------------ a restarted process
\* The Remote Store outlives the process: a process that starts with the
\* endpoint configured can find a profile that an earlier process stored
\* durably, while its own _fallback_profiles starts empty.
PersistedProfile == register_profile_data(IdOf(Jo), Jo, Absent, 0)

InitPersisted ==
    /\ N8N_WEBHOOK_URL = TRUE
    /\ OPENAI_API_KEY \in BOOLEAN
    /\ openai_client = FALSE
    /\ fallback_profiles = {}
    /\ remote_profiles = RemoteStore({}, PersistedProfile)
    /\ remote_sessions = {}
    /\ calls = 0
    /\ inv = [s \in Slots |-> Idle]
    /\ last = Idle
    /\ issued = <<>>

PersistedSpec == InitPersisted /\ [][Next]_vars

\* ------------------------------------------------------------------ claims
\* The birth facts of a stored or resolved profile.
FactsOf(p) == Facts(p.name, p.dob, p.time, p.place)

\* Normal form of birth facts: name and place lowercased and stripped, dob and
\* time verbatim.
Normal(f) == <<strip(lower(f.name)), f.dob, f.time, strip(lower(f.place))>>

ItemsUnder(d, k) == {e \in d : e[1] = k}

Receipts == {issued[i] : i \in DOMAIN issued}

\* The most recent acknowledged registration of profile id k, if any.
LatestFor(k) ==
    LET at == {i \in DOMAIN issued : issued[i].profile_id = k}
    IN  {issued[i] : i \in {j \in at : \A m \in at : m <= j}}

\* last is an ask that returned in the step that resolved its profile_id. The
\* Fallback Store is written and issued extended only in steps that return a
\* registration, so both are still as that resolve found them.
ResolvedById ==
    /\ last.tool = "ask"
    /\ Truthy(last.arg_profile_id)
    /\ last.kind \in {"answered", "guidance"}

AllGiven(f) == \A x \in {f.name, f.dob, f.time, f.place} : x # Absent

C2_RoundTrip ==
    (~N8N_WEBHOOK_URL /\ last.tool = "ask" /\ Truthy(last.arg_profile_id))
    => \A r \in LatestFor(last.arg_profile_id) :
          r.tool = "register"
              => /\ last.status = "ok"
                 /\ last.kind = "answered"
                 /\ last.insight_args = {InsightArgs(r.facts, Question)}

\* ask by id after register, for facts whose normal form differs from them
C2_Witness ==
    /\ ~N8N_WEBHOOK_URL
    /\ last.tool = "ask"
    /\ last.kind = "answered"
    /\ last.arg_profile_id = IdOf(JoSpaced)
    /\ \E a \in last.insight_args : a.name = JoSpaced.name /\ a.place = JoSpaced.place
    /\ \E r \in LatestFor(last.arg_profile_id) : r.tool = "register" /\ r.facts = JoSpaced

\* C3 as stated. Whenever ask is called with an explicit profile_id and all
\* four birth facts, the profile-id path is used: no id is derived from the
\* facts, they are written to no store and are not passed to the Insight
\* Generator.
C3_Original ==
    (last.tool = "ask" /\ Truthy(last.arg_profile_id) /\ AllGiven(last.facts))
    => /\ last.kind = "answered"
       /\ last.profile_id = Absent
       /\ last.n_store = 0
       /\ last.n_fallback = 0

\* C3, amended. Whenever ask is called with an explicit profile_id that
\* resolves to a profile and with all four birth facts, the profile-id path is
\* used exclusively: no id is derived from the supplied facts, no store is
\* written, and the Insight Generator gets the resolved profile's facts.
C3_ResolvedIdWins ==
    /\ (/\ last.tool = "ask"
        /\ Truthy(last.arg_profile_id)
        /\ last.resolved # {}
        /\ AllGiven(last.facts))
       => /\ last.kind = "answered"
          /\ last.profile_id = Absent
          /\ last.profile_data = {}
          /\ last.n_store = 0
          /\ last.n_fallback = 0
          /\ \E p \in last.resolved :
                 last.insight_args = {InsightArgs(FactsOf(p), Question)}
    /\ \A s \in Slots :
          (inv[s].tool = "ask" /\ inv[s].pc = "store_wait")
              => (inv[s].arg_profile_id = Absent \/ inv[s].resolved = {})

\* the id resolves to a profile whose facts are not the facts supplied
C3_Witness ==
    /\ last.tool = "ask"
    /\ last.kind = "answered"
    /\ last.facts = Jo
    /\ \E p \in last.resolved :
          /\ FactsOf(p) # Jo
          /\ last.insight_args = {InsightArgs(FactsOf(p), Question)}

\* C4. Idempotent registration: registering identical birth facts twice yields
\* the same profile_id both times, and the store that accepted the write holds
\* exactly one record under that id (each store holds at most one per id).
C4_Idempotent ==
    /\ \A a, b \in Receipts :
          (a.tool = "register" /\ b.tool = "register" /\ a.facts = b.facts)
              => a.profile_id = b.profile_id
    /\ \A k \in DictKeys(fallback_profiles) :
          Cardinality(ItemsUnder(fallback_profiles, k)) = 1
    /\ \A k \in DictKeys(remote_profiles) :
          Cardinality(ItemsUnder(remote_profiles, k)) = 1
    /\ (last.tool = "register" /\ last.status = "ok")
          => Cardinality(ItemsUnder(IF last.store_outcome = "ok"
                                    THEN remote_profiles
                                    ELSE fallback_profiles,
                                    last.profile_id)) = 1

\* the second registration of the same facts overwrote the first in its store
C4_Witness ==
    /\ Len(issued) = 2
    /\ issued[1].tool = "register"
    /\ issued[2].tool = "register"
    /\ issued[1].facts = issued[2].facts
    /\ issued[1].tier = issued[2].tier
    /\ issued[1].profile_data # issued[2].profile_data
    /\ last.tool = "register"
    /\ last.profile_data = issued[2].profile_data
    /\ \E st \in {fallback_profiles, remote_profiles} :
          DictGet(st, last.profile_id) = last.profile_data

\* C5. Content-addressed identity: the profile_id returned and stored by
\* register and by ask's auto-registration depends only on the normal form of
\* the birth facts: equal normal forms get equal ids, whatever the session, the
\* creation time, the tier that took the write or the invocation.
C5_ContentAddressed ==
    /\ \A a, b \in Receipts :
          Normal(a.facts) = Normal(b.facts) => a.profile_id = b.profile_id
    /\ \A e \in (fallback_profiles \cup remote_profiles) : \A r \in Receipts :
          Normal(FactsOf(e[2])) = Normal(r.facts)
              => (e[1] = r.profile_id /\ e[2].profile_id = r.profile_id)

\* two spellings of the same facts, registered through different tools,
\* sessions and tiers at different times
C5_Witness ==
    \E a, b \in Receipts :
        /\ a.facts # b.facts
        /\ Normal(a.facts) = Normal(b.facts)
        /\ a.tool # b.tool
        /\ a.tier # b.tier
        /\ a.session_id # b.session_id
        /\ a.profile_id = b.profile_id
        /\ \E x \in a.profile_data, y \in b.profile_data : x.created_at # y.created_at

\* C6 as stated. Once register has returned successfully for profile id p,
\* every later resolve-by-id of p returns a profile, whatever the Remote Store
\* does afterwards.
C6_Original ==
    (/\ ResolvedById
     /\ \E r \in Receipts : r.tool = "register" /\ r.profile_id = last.arg_profile_id)
    => last.resolved # {}

\* C6, amended. Once register has returned for p after writing the profile to
\* the Fallback Store (store_profile failed, or no endpoint is configured),
\* every later resolve-by-id of p in the same process whose get_profile call
\* fails (unreachable, error status, non-JSON body), or that runs with no
\* endpoint configured, returns a profile.
C6_FallbackStaysResolvable ==
    (/\ ResolvedById
     /\ last.get_outcome \in StorageErrors \cup {"none"}
     /\ \E r \in Receipts :
           /\ r.tool = "register"
           /\ r.profile_id = last.arg_profile_id
           /\ r.tier \in {"fallback_used", "ephemeral"})
    => /\ last.resolved # {}
       /\ last.kind = "answered"

\* a profile registered through the fallback, resolved while the endpoint fails
C6_Witness ==
    /\ ResolvedById
    /\ N8N_WEBHOOK_URL
    /\ last.get_outcome = "unreachable"
    /\ last.resolved # {}
    /\ \E r \in Receipts :
          /\ r.tool = "register"
          /\ r.profile_id = last.arg_profile_id
          /\ r.tier = "fallback_used"

\* C7. After register with session_id s stored the profile durably and recorded
\* the binding s -> profile_id, an ask in session s that supplies neither a
\* profile_id nor birth facts is answered from the bound profile and does not
\* return the guidance message.
C7_SessionBinding ==
    (/\ last.tool = "ask"
     /\ last.arg_profile_id = Absent
     /\ last.facts = NoFacts
     /\ \E pid \in DictGet(remote_sessions, last.caller_session) :
            DictGet(remote_profiles, pid) # {})
    => last.kind = "answered"

\* C8. Guidance: ask with no profile_id, or with one that resolves to no
\* profile, and with at least one of name, dob, time, place missing or empty
\* returns the guidance message, raises no Tool Error and writes no store.
C8_Guidance ==
    /\ (/\ last.tool = "ask"
        /\ (last.arg_profile_id = Absent \/ last.resolved = {})
        /\ ~AllGiven(last.facts))
       => /\ last.status = "ok"
          /\ last.kind = "guidance"
          /\ last.n_store = 0
          /\ last.n_session = 0
          /\ last.n_fallback = 0
    /\ \A s \in Slots :
          (inv[s].tool = "ask" /\ inv[s].pc = "store_wait") => AllGiven(inv[s].facts)

\* guidance after an id that did not resolve, with only the place missing
C8_Witness ==
    /\ last.tool = "ask"
    /\ last.kind = "guidance"
    /\ Truthy(last.arg_profile_id)
    /\ last.get_outcome \in StorageErrors
    /\ last.facts = [Jo EXCEPT !.place = Absent]

\* C9. Session binding is best-effort: when store_profile succeeded and the
\* set_active_session call that follows fails, register still returns success
\* with the durable tier, no Tool Error, and the Fallback Store is not written.
C9_SessionBestEffort ==
    (/\ last.tool = "register"
     /\ last.store_outcome = "ok"
     /\ last.session_outcome \in StorageErrors)
    => /\ last.status = "ok"
       /\ last.kind = "registered"
       /\ last.storage_info = Durable
       /\ last.n_fallback = 0

\* registered durably although set_active_session answered an error status
C9_Witness ==
    /\ last.tool = "register"
    /\ last.status = "ok"
    /\ last.store_outcome = "ok"
    /\ last.session_outcome = "status"
    /\ last.storage_info = Durable
    /\ DictGet(remote_profiles, last.profile_id) = last.profile_data
    /\ DictGet(fallback_profiles, last.profile_id) = {}
    /\ DictGet(remote_sessions, last.session_id) = {}

\* C10. Resolver soft-fail: whenever get_profile fails, or succeeds without a
\* profile payload, resolve-by-id returns the Fallback Store's entry for the
\* id (the stored profile if present, otherwise nothing).
C10_ResolverSoftFail ==
    (/\ ResolvedById
     /\ last.get_outcome \in StorageErrors \cup {"no_profile_key", "null_profile"})
    => last.resolved = DictGet(fallback_profiles, last.arg_profile_id)

\* C11. Ask's auto-registration writes like register: an ask with no profile_id
\* and all four facts builds, under the id derived from the facts, the record
\* register without session_id builds, leaves it in the Fallback Store exactly
\* when the write was not accepted by the Remote Store, and discloses the tier
\* register discloses: durable on store success, fallback-after-failure on
\* store failure, ephemeral when the Remote Store is not configured.
C11_AskWritesLikeRegister ==
    (/\ last.tool = "ask"
     /\ last.kind = "auto_registered"
     /\ last.arg_profile_id = Absent)
    => LET f == last.facts
           pid == generate_profile_id(f.name, f.dob, f.time, f.place)
       IN  /\ last.profile_id = pid
           /\ \E d \in last.profile_data :
                 d = register_profile_data(pid, f, Absent, d.created_at)
           /\ IF last.store_outcome = "ok"
              THEN last.n_fallback = 0
              ELSE DictGet(fallback_profiles, pid) = last.profile_data
           /\ last.storage_info.tier =
                 (IF ~N8N_WEBHOOK_URL THEN Ephemeral.tier
                  ELSE IF last.store_outcome = "ok" THEN Durable.tier
                  ELSE FallbackUsed(last.store_outcome).tier)

\* The acknowledged registrations whose write the Fallback Store took.
FallbackReceiptsAt ==
    {i \in DOMAIN issued : issued[i].tier \in {Ephemeral.tier, "fallback_used"}}

\* C12. created_at is write-once: the profile a store holds under an id carries
\* the created_at of the first write that store took for the id; a later
\* register or auto-registration of the same id leaves it unchanged. Stated
\* for the Fallback Store, whose writes are acknowledged in the order made.
C12_CreatedAtWriteOnce ==
    \A e \in fallback_profiles : \A i \in FallbackReceiptsAt :
        (/\ issued[i].profile_id = e[1]
         /\ \A j \in FallbackReceiptsAt : j < i => issued[j].profile_id # e[1])
        => \A d \in issued[i].profile_data : e[2].created_at = d.created_at

\* C13. Unconfigured endpoint fails fast: with no webhook endpoint set, each of
\* store_profile, get_profile and set_active_session reports a Storage Error
\* and makes no request.
C13_UnconfiguredFailsFast ==
    (~N8N_WEBHOOK_URL /\ last.tool \in ClientOps)
    => /\ last.status = "storage_error"
       /\ last.n_store + last.n_get + last.n_session = 0

InFlightOrLast == {inv[s] : s \in Slots} \cup {last}

\* C14. No retries: every Remote Store call of an invocation, failed or not,
\* made exactly one request; a register makes at most one store_profile and one
\* set_active_session request and no get_profile request, an ask at most one
\* get_profile and one store_profile request and no set_active_session request.
C14_NoRetries ==
    \A loc \in InFlightOrLast :
        /\ loc.n_store = (IF loc.store_outcome \in CallOutcomes THEN 1 ELSE 0)
        /\ loc.n_get = (IF loc.get_outcome = "none" THEN 0 ELSE 1)
        /\ loc.n_session = (IF loc.session_outcome \in CallOutcomes THEN 1 ELSE 0)
        /\ loc.tool = "register" => loc.n_get = 0
        /\ loc.tool = "ask" => loc.n_session = 0

\* an ask whose get_profile failed and whose store_profile then failed too
C14_Witness ==
    /\ last.tool = "ask"
    /\ last.status = "ok"
    /\ last.get_outcome \in StorageErrors
    /\ last.store_outcome \in StorageErrors
    /\ last.n_get = 1
    /\ last.n_store = 1
    /\ \E s \in Slots :
          /\ inv[s].tool = "register"
          /\ inv[s].pc = "session_wait"
          /\ inv[s].n_store = 1

\* C15. Insight Generator failure does not fail the tool: when the Insight
\* Generator was called and was unconfigured, or its backend call failed or
\* returned nothing, register and ask return a normal response, for register
\* with the profile_id and the storage tier, whose insight text is one of the
\* fixed messages; no Tool Error is raised and the store write is kept.
C15_InsightFailureTolerated ==
    (/\ last.tool \in {"register", "ask"}
     /\ last.insight_args # {}
     /\ last.insights # "insights")
    => /\ last.status = "ok"
       /\ last.kind \in {"registered", "answered", "auto_registered"}
       /\ last.insights \in {"unavailable", "sorry_technical_issue", "sorry_no_insights"}
       /\ last.tool = "register"
             => /\ last.profile_id = IdOf(last.facts)
                /\ last.storage_info.tier \in {Durable.tier, Ephemeral.tier, "fallback_used"}
       /\ last.n_fallback = 1
             => DictGet(fallback_profiles, last.profile_id) = last.profile_data
       /\ last.store_outcome = "ok"
             => DictGet(remote_profiles, last.profile_id) # {}

\* a register whose store_profile failed and whose backend call then raised
C15_Witness ==
    /\ last.tool = "register"
    /\ last.status = "ok"
    /\ openai_client
    /\ last.insights = "sorry_technical_issue"
    /\ last.store_outcome \in StorageErrors
    /\ DictGet(fallback_profiles, last.profile_id) = last.profile_data

\* No register that has stored profile id k is still awaiting its
\* set_active_session: every Remote Store write for k has been acknowledged.
RemoteWritesAcknowledged(k) ==
    \A s \in Slots : ~(inv[s].pc = "session_wait" /\ inv[s].profile_id = k)

\* C16 as stated. Ownership by last accepted write: resolve-by-id returns the
\* record of the store that most recently accepted a write for the id; here
\* for the case that this store is the Fallback Store (the latest acknowledged
\* registration of the id went to the fallback and no Remote Store write for it
\* is unacknowledged).
C16_Original ==
    (ResolvedById /\ RemoteWritesAcknowledged(last.arg_profile_id))
    => \A r \in LatestFor(last.arg_profile_id) :
          r.tier = "fallback_used" => last.resolved = r.profile_data

\* C16, amended. After any sequence of register / ask auto-registration calls
\* for a profile_id, resolve-by-id returns the record the Remote Store holds
\* for the id whenever get_profile succeeds with that payload, even when the
\* Fallback Store accepted a write for the id more recently; when get_profile
\* fails it returns the record the Fallback Store accepted last.
C16_RemoteRecordOwns ==
    ResolvedById
    => /\ (/\ last.get_outcome = "profile"
           /\ RemoteWritesAcknowledged(last.arg_profile_id))
          => last.resolved = DictGet(remote_profiles, last.arg_profile_id)
       /\ last.get_outcome \in StorageErrors
          => \A i \in FallbackReceiptsAt :
                (/\ issued[i].profile_id = last.arg_profile_id
                 /\ \A j \in FallbackReceiptsAt :
                       issued[j].profile_id = last.arg_profile_id => j <= i)
                => last.resolved = issued[i].profile_data

\* the Fallback Store took the latest write for the id, the resolve returned
\* the older record of the Remote Store
C16_Witness ==
    /\ ResolvedById
    /\ last.get_outcome = "profile"
    /\ RemoteWritesAcknowledged(last.arg_profile_id)
    /\ last.resolved = DictGet(remote_profiles, last.arg_profile_id)
    /\ \E r \in LatestFor(last.arg_profile_id) :
          /\ r.tier = "fallback_used"
          /\ r.profile_data # last.resolved
          /\ DictGet(fallback_profiles, last.arg_profile_id) = r.profile_data

\* The records the Remote Store has accepted: the one found at start and the
\* ones stored durably by this process, acknowledged or not yet.
RemoteAccepted ==
    {PersistedProfile}
    \cup UNION {r.profile_data : r \in {x \in Receipts : x.tier = Durable.tier}}
    \cup UNION {inv[s].profile_data : s \in {x \in Slots : inv[x].pc = "session_wait"}}

\* C17. Resolver tier precedence: when a profile_id is given, the endpoint is
\* configured and get_profile succeeds with a profile payload, resolve returns
\* that payload, a record of the Remote Store, and ask answers from it,
\* whatever the Fallback Store holds under the same id.
C17_RemotePayloadWins ==
    (ResolvedById /\ last.get_outcome = "profile")
    => /\ last.resolved # {}
       /\ last.resolved \subseteq RemoteAccepted
       /\ last.kind = "answered"
       /\ \E p \in last.resolved :
              /\ p.profile_id = last.arg_profile_id
              /\ last.insight_args = {InsightArgs(FactsOf(p), Question)}

\* the Fallback Store holds another record under the id that was resolved
C17_Witness ==
    /\ ResolvedById
    /\ last.get_outcome = "profile"
    /\ last.resolved = {PersistedProfile}
    /\ DictGet(fallback_profiles, last.arg_profile_id) # {}
    /\ DictGet(fallback_profiles, last.arg_profile_id) # last.resolved
    /\ \E f \in DictGet(fallback_profiles, last.arg_profile_id) :
          f.name # PersistedProfile.name

\* C18. Last-write-wins under concurrency: however register and ask
\* invocations for one profile_id interleave at their awaits, the Fallback
\* Store holds at most one record under the id, and that record is, field for
\* field, the one built by the invocation whose fallback write ran last.
C18_LastWriteWins ==
    /\ \A k \in DictKeys(fallback_profiles) :
          Cardinality(ItemsUnder(fallback_profiles, k)) = 1
    /\ \A i \in FallbackReceiptsAt :
          (\A j \in FallbackReceiptsAt :
               issued[j].profile_id = issued[i].profile_id => j <= i)
          => DictGet(fallback_profiles, issued[i].profile_id) = issued[i].profile_data
    /\ \A k \in DictKeys(fallback_profiles) :
          \E i \in FallbackReceiptsAt : issued[i].profile_id = k

\* two registers of one id in flight together: the second to arrive fell back
\* first, the first to arrive fell back last and its record is the one held
C18_Witness ==
    /\ Len(issued) = 2
    /\ issued[1].tool = "register"
    /\ issued[2].tool = "register"
    /\ issued[1].tier = "fallback_used"
    /\ issued[2].tier = "fallback_used"
    /\ issued[1].profile_id = issued[2].profile_id
    /\ issued[1].facts # issued[2].facts
    /\ \E a \in issued[1].profile_data, b \in issued[2].profile_data :
          a.created_at > b.created_at
    /\ DictGet(fallback_profiles, issued[2].profile_id) = issued[2].profile_data

\* The invocation has requested set_active_session.
SessionRequested(loc) == loc.pc = "session_wait" \/ loc.session_outcome # "none"

\* C19. Ordering of the session binding: an invocation requests
\* set_active_session only if it is a register, the endpoint is configured,
\* its own store_profile has completed successfully and a session_id was
\* given; never after a failed store_profile, never without an endpoint and
\* never from ask's auto-registration.
C19_SessionAfterStore ==
    \A loc \in InFlightOrLast :
        /\ SessionRequested(loc)
              => /\ loc.tool = "register"
                 /\ N8N_WEBHOOK_URL
                 /\ loc.store_outcome = "ok"
                 /\ loc.n_store = 1
                 /\ Truthy(loc.session_id)
        /\ (loc.tool = "ask" \/ loc.store_outcome \in StorageErrors \/ ~N8N_WEBHOOK_URL)
              => (loc.n_session = 0 /\ loc.pc # "session_wait")

\* a register awaiting set_active_session after its store_profile succeeded,
\* next to one whose store_profile failed and that returned without binding
C19_Witness ==
    /\ \E s \in Slots :
          /\ inv[s].pc = "session_wait"
          /\ inv[s].store_outcome = "ok"
          /\ DictGet(remote_profiles, inv[s].profile_id) = inv[s].profile_data
    /\ last.tool = "register"
    /\ Truthy(last.session_id)
    /\ last.store_outcome \in StorageErrors
    /\ last.session_outcome = "none"

C21_FallbackKeyConsistent ==
    \A e \in fallback_profiles :
        /\ e[2].profile_id = e[1]
        /\ e[1] = generate_profile_id(e[2].name, e[2].dob, e[2].time, e[2].place)

\* two entries under two keys, one of them a record whose name and place are
\* not in normal form
C21_Witness ==
    /\ Cardinality(DictKeys(fallback_profiles)) = 2
    /\ \E e \in fallback_profiles :
          /\ e[2].name = JoSpaced.name
          /\ e[2].place = JoSpaced.place
          /\ e[1] = IdOf(Jo)
    /\ \A i \in FallbackReceiptsAt :
          DictGet(fallback_profiles, issued[i].profile_id) = issued[i].profile_data

\* What a step that changes the Fallback Store is: the return of a register or
\* of an ask auto-registration whose store_profile failed or had no endpoint,
\* writing that invocation's record at the id derived from its facts and
\* leaving every other entry as it was.
C22_Step ==
    /\ DictKeys(fallback_profiles) \subseteq DictKeys(fallback_profiles')
    /\ fallback_profiles' # fallback_profiles
          => /\ last'.kind \in {"registered", "auto_registered"}
             /\ last'.n_fallback = 1
             /\ ~N8N_WEBHOOK_URL \/ last'.store_outcome \in StorageErrors
             /\ last'.profile_id = IdOf(last'.facts)
             /\ \A e \in fallback_profiles :
                    e[1] # last'.profile_id => e \in fallback_profiles'
             /\ \A e \in fallback_profiles' :
                    e[1] # last'.profile_id => e \in fallback_profiles
             /\ DictGet(fallback_profiles', last'.profile_id) = last'.profile_data
    /\ (/\ last' # last
        /\ \/ last'.store_outcome = "ok"
           \/ last'.kind \in {"answered", "guidance"})
          => fallback_profiles' = fallback_profiles
    /\ inv' # inv /\ last' = last => fallback_profiles' = fallback_profiles

\* C22. Fallback Store frame: the Fallback Store changes only when a register
\* or an ask auto-registration returns after its store_profile failed or with
\* no endpoint configured, and then only at the key of the derived profile_id;
\* a register whose store_profile succeeded, an ask answered through a resolved
\* id, an ask returning the guidance message and every step that only suspends
\* or resolves leave it unchanged, and no step removes a key.
C22_FallbackFrame == [][C22_Step]_vars

\* a fallback write at one key has left the entry under the other key as the
\* earlier registration wrote it
C22_Witness ==
    /\ Len(issued) = 2
    /\ last.n_fallback = 1
    /\ last.profile_id = issued[2].profile_id
    /\ issued[1].profile_id # last.profile_id
    /\ issued[1].tier = "fallback_used"
    /\ DictGet(fallback_profiles, issued[1].profile_id) = issued[1].profile_data
    /\ DictGet(fallback_profiles, last.profile_id) = last.profile_data

====
